---- MODULE Spec2Model ----
(***************************************************************************)
(* Nexly terminal chat client: the session state machine of the TUI        *)
(* (package tui), the background worker that runs one provider exchange,   *)
(* and the persisted history of package config.                            *)
(*                                                                         *)
(* The bubbletea program holds one tea.Model.  model.Update has a value    *)
(* receiver, so every Update works on a fresh copy of the model it is      *)
(* called on; sendMessage, handleCommand and updateCommandPalette have     *)
(* pointer receivers and hand back a pointer to that copy.  The closure    *)
(* sendMessage returns captures the same pointer, so the worker's          *)
(* streamResponse writes to the program's model only as long as no other   *)
(* Update has replaced it by a newer copy.                                 *)
(***************************************************************************)
EXTENDS Integers, Sequences, FiniteSets, TLC

VARIABLES
    m,        \* the fields of the model the program currently holds
    workers,  \* the background workers (closures running streamResponse)
    tick,     \* a tea.Tick armed by sendMessage has not been delivered yet
    cfg,      \* the config file: the session provider's API key and the history
    sent,     \* the number of exchanges started so far
    quit,     \* tea.Quit has been returned: the program has ended
    last      \* the event processed last: the enter key, an exchange outcome (with
              \* the text the exchange had accumulated), or any other event

vars == <<m, workers, tick, cfg, sent, quit, last>>

(***************************************************************************)
(* Bounds of the model.                                                    *)
(***************************************************************************)
MaxFeedback == 1    \* a command adds its message only to a list shorter than this
MaxTyped == 1       \* keys append to a buffer only while input and filter
                    \* together hold fewer characters than this
MaxDeltas == 1      \* TextDeltas in one response body
MaxExchanges == 2   \* exchanges one session starts at most
MaxSpins == 11      \* exchanges of the session that is watched for its spinner
MaxNotices == 4     \* entries below which a palette command answers, palette session
MaxAnswers == 2     \* entries below which a command answers, command session
MaxFilter == 2      \* characters of input and filter, filter session
MaxAdds == 2        \* AddMessage calls on the config file that is watched
MaxLines == 3       \* lines of the response body of the exchange decoded line by line

(***************************************************************************)
(* Strings.                                                                *)
(***************************************************************************)
HasPrefix(s, p) == Len(s) >= Len(p) /\ SubSeq(s, 1, Len(p)) = p

UpperLetters == "ABCDEFGHIJKLMNOPQRSTUVWXYZ"
LowerLetters == "abcdefghijklmnopqrstuvwxyz"

LowerChar(c) ==
    IF \E i \in 1..26 : SubSeq(UpperLetters, i, i) = c
    THEN LET i == CHOOSE j \in 1..26 : SubSeq(UpperLetters, j, j) = c
         IN  SubSeq(LowerLetters, i, i)
    ELSE c

RECURSIVE ToLower(_)
ToLower(s) ==
    IF s = "" THEN ""
    ELSE LowerChar(SubSeq(s, 1, 1)) \o ToLower(SubSeq(s, 2, Len(s)))

Contains(s, sub) ==
    \E i \in 1..(Len(s) + 1) :
        i + Len(sub) - 1 <= Len(s) /\ SubSeq(s, i, i + Len(sub) - 1) = sub

RECURSIVE Join(_, _)
Join(list, sep) ==
    IF list = <<>> THEN ""
    ELSE IF Len(list) = 1 THEN list[1]
    ELSE list[1] \o sep \o Join(Tail(list), sep)

(***************************************************************************)
(* package config                                                          *)
(***************************************************************************)
HistoryCap == 100

GetProviders == <<"openai", "anthropic", "google", "openrouter", "nvidia">>

GetModels(provider) ==
    CASE provider = "openai" ->
           <<"gpt-4-turbo", "gpt-4", "gpt-4o", "gpt-4o-mini", "gpt-3.5-turbo",
             "o1", "o1-mini", "o1-preview">>
      [] provider = "anthropic" ->
           <<"claude-3-5-sonnet-20241022", "claude-3-5-sonnet-20240620",
             "claude-3-opus-20240229", "claude-3-haiku-20240307">>
      [] provider = "google" ->
           <<"gemini-2.0-flash", "gemini-1.5-pro", "gemini-1.5-flash",
             "gemini-1.0-pro">>
      [] provider = "openrouter" ->
           <<"openai/gpt-4", "openai/gpt-4o", "anthropic/claude-3.5-sonnet",
             "google/gemini-pro-1.5", "meta-llama/llama-3.1-70b-instruct">>
      [] provider = "nvidia" ->
           <<"nvidia/llama-3.1-nemotron-70b-instruct",
             "nvidia/mixtral-8x7b-instruct-v0.1",
             "nvidia/mistral-7b-instruct-v0.2">>
      [] OTHER -> <<"gpt-4">>

Msg(role, content) == [Role |-> role, Content |-> content]

\* An AddMessage that keeps the first HistoryCap entries.
AddMessageToKeepsOldest(history, role, content) ==
    LET h == Append(history, Msg(role, content))
    IN  IF Len(h) > HistoryCap THEN SubSeq(h, 1, HistoryCap) ELSE h

\* AddMessage after LoadConfig: append, keep the last HistoryCap entries.
AddMessageTo(history, role, content) ==
    LET h == Append(history, Msg(role, content))
    IN  IF Len(h) > HistoryCap THEN SubSeq(h, Len(h) - HistoryCap + 1, Len(h)) ELSE h

\* A ClearHistory that saves the file as it loaded it.
ClearHistoryKeeps(c) == c

\* ClearHistory: load, empty the history, save the whole file.
ClearHistory(c) == [c EXCEPT !.history = <<>>]

(***************************************************************************)
(* package tui: the model and its commands                                 *)
(***************************************************************************)
spinnerFrames == <<"f0", "f1", "f2", "f3", "f4", "f5", "f6", "f7", "f8", "f9">>

CommandNames == <<"/provider", "/model", "/clear", "/help", "/config", "/exit">>

ProvidersText ==
    "Available providers:\n" \o Join(GetProviders, "\n")
        \o "\n\nUse 'nexly provider set <provider>' to switch."

ModelsText(provider) ==
    "Available models for " \o provider \o ":\n" \o Join(GetModels(provider), "\n")
        \o "\n\nUse 'nexly model set <model>' to switch."

ClearedText == "Chat history cleared."
HelpText == "\nNexly - AI Coding Assistant\n============================\n..."
ConfigText == "\nNexly Configuration\n====================\n..."

\* strings.ToLower(cmd.Name) of each command.
LowerNames == [i \in 1..Len(CommandNames) |-> ToLower(CommandNames[i])]

\* What Update hands back: the model, the tea.Cmd, the config file after the
\* handler's own writes, and whether messages was replaced by a new list.
Ret(mm, cmd, c) == [m |-> mm, cmd |-> cmd, cfg |-> c, fresh |-> FALSE]

AppendMsg(mm, role, content) ==
    [mm EXCEPT !.messages = Append(@, Msg(role, content))]

ClosePalette(mm) == [mm EXCEPT !.commandView = FALSE, !.commandInput = ""]

\* A /provider that moves the session to the next provider of the list.
switchProviderCmdSwitches(mm, c) ==
    Ret(ClosePalette(AppendMsg([mm EXCEPT !.provider =
                                    IF @ = "openai" THEN "anthropic" ELSE "openai"],
                               "assistant", ProvidersText)), "nil", c)

switchProviderCmd(mm, c) ==
    Ret(ClosePalette(AppendMsg(mm, "assistant", ProvidersText)), "nil", c)

switchModelCmd(mm, c) ==
    Ret(ClosePalette(AppendMsg(mm, "assistant", ModelsText(mm.provider))), "nil", c)

clearChatCmd(mm, c) ==
    [Ret(ClosePalette([mm EXCEPT !.messages = <<Msg("assistant", ClearedText)>>]),
         "nil", ClearHistory(c)) EXCEPT !.fresh = TRUE]

helpCmd(mm, c) ==
    Ret(AppendMsg(ClosePalette(mm), "assistant", HelpText), "nil", c)

configCmd(mm, c) ==
    Ret(AppendMsg(ClosePalette(mm), "assistant", ConfigText), "nil", c)

exitCmd(mm, c) == Ret(mm, "quit", c)

\* Command.Action of the command at (1-based) position i of getCommands().
Action(i, mm, c) ==
    CASE CommandNames[i] = "/provider" -> switchProviderCmd(mm, c)
      [] CommandNames[i] = "/model"    -> switchModelCmd(mm, c)
      [] CommandNames[i] = "/clear"    -> clearChatCmd(mm, c)
      [] CommandNames[i] = "/help"     -> helpCmd(mm, c)
      [] CommandNames[i] = "/config"   -> configCmd(mm, c)
      [] CommandNames[i] = "/exit"     -> exitCmd(mm, c)

\* A handleCommand that empties the input buffer after a known command too.
handleCommandClearsInput(mm, input, c) ==
    IF \E i \in 1..Len(CommandNames) : input = CommandNames[i]
    THEN [Action(CHOOSE i \in 1..Len(CommandNames) : input = CommandNames[i], mm, c)
             EXCEPT !.m.input = ""]
    ELSE Ret([AppendMsg(mm, "assistant", "Unknown command: " \o input)
                 EXCEPT !.input = ""], "nil", c)

\* A handleCommand that ignores the case of the letters of its input.
handleCommandIgnoringCase(mm, input, c) ==
    IF \E i \in 1..Len(CommandNames) : ToLower(input) = CommandNames[i]
    THEN Action(CHOOSE i \in 1..Len(CommandNames) :
                    ToLower(input) = CommandNames[i], mm, c)
    ELSE Ret([AppendMsg(mm, "assistant", "Unknown command: " \o input)
                 EXCEPT !.input = ""], "nil", c)

\* A handleCommand that runs the first command whose name starts with input.
handleCommandByPrefix(mm, input, c) ==
    IF \E i \in 1..Len(CommandNames) : HasPrefix(CommandNames[i], input)
    THEN Action(CHOOSE i \in 1..Len(CommandNames) :
                    /\ HasPrefix(CommandNames[i], input)
                    /\ \A j \in 1..(i - 1) : ~HasPrefix(CommandNames[j], input),
                mm, c)
    ELSE Ret([AppendMsg(mm, "assistant", "Unknown command: " \o input)
                 EXCEPT !.input = ""], "nil", c)

handleCommand(mm, input, c) ==
    IF \E i \in 1..Len(CommandNames) : input = CommandNames[i]
    THEN Action(CHOOSE i \in 1..Len(CommandNames) :
                    /\ input = CommandNames[i]
                    /\ \A j \in 1..(i - 1) : input # CommandNames[j],
                mm, c)
    ELSE Ret([AppendMsg(mm, "assistant", "Unknown command: " \o input)
                 EXCEPT !.input = ""], "nil", c)

\* A sendMessage that leaves the submitted text in the input buffer.
sendMessageKeepsInput(mm, c) ==
    Ret([AppendMsg(mm, "user", mm.input)
            EXCEPT !.streaming = TRUE, !.spinner = TRUE], "send", c)

sendMessage(mm, c) ==
    Ret([AppendMsg(mm, "user", mm.input)
            EXCEPT !.input = "", !.streaming = TRUE, !.spinner = TRUE], "send", c)

\* renderCommandPalette's list: the names of the commands it displays, those
\* whose name contains the filter text, letter case ignored.
filtered(mm) ==
    IF mm.commandInput = "" THEN CommandNames
    ELSE LET shown(name) == Contains(ToLower(name), ToLower(mm.commandInput))
         IN  SelectSeq(CommandNames, shown)

\* An updateCommandPalette whose enter runs the command displayed at the
\* selection index.
updateCommandPaletteDisplayed(mm, msg, c) ==
    IF msg.str = "escape" THEN Ret(ClosePalette(mm), "nil", c)
    ELSE IF msg.str = "enter" /\ mm.selectedCmd < Len(filtered(mm))
        THEN Action(CHOOSE i \in 1..Len(CommandNames) :
                        CommandNames[i] = filtered(mm)[mm.selectedCmd + 1], mm, c)
    ELSE IF msg.str = "up" /\ mm.selectedCmd > 0
        THEN Ret([mm EXCEPT !.selectedCmd = @ - 1], "nil", c)
    ELSE IF msg.str = "down" /\ mm.selectedCmd < Len(CommandNames) - 1
        THEN Ret([mm EXCEPT !.selectedCmd = @ + 1], "nil", c)
    ELSE IF msg.str = "backspace" /\ Len(mm.commandInput) > 0
        THEN Ret([mm EXCEPT !.commandInput = SubSeq(@, 1, Len(@) - 1)], "nil", c)
    ELSE IF msg.runes # ""
        THEN LET ci == mm.commandInput \o msg.runes
                 lci == ToLower(ci)
                 hit(i) == Contains(LowerNames[i], lci)
             IN  Ret([mm EXCEPT
                        !.commandInput = ci,
                        !.selectedCmd =
                            IF \E i \in 1..Len(CommandNames) : hit(i)
                            THEN (CHOOSE i \in 1..Len(CommandNames) :
                                     hit(i) /\ \A j \in 1..(i - 1) : ~hit(j)) - 1
                            ELSE @],
                     "nil", c)
    ELSE Ret(mm, "nil", c)

\* A palette that selects the last command whose name contains the filter.
updateCommandPaletteLastMatch(mm, msg, c) ==
    IF msg.str = "escape" THEN Ret(ClosePalette(mm), "nil", c)
    ELSE IF msg.str = "enter" /\ mm.selectedCmd < Len(CommandNames)
        THEN Action(mm.selectedCmd + 1, mm, c)
    ELSE IF msg.str = "up" /\ mm.selectedCmd > 0
        THEN Ret([mm EXCEPT !.selectedCmd = @ - 1], "nil", c)
    ELSE IF msg.str = "down" /\ mm.selectedCmd < Len(CommandNames) - 1
        THEN Ret([mm EXCEPT !.selectedCmd = @ + 1], "nil", c)
    ELSE IF msg.str = "backspace" /\ Len(mm.commandInput) > 0
        THEN Ret([mm EXCEPT !.commandInput = SubSeq(@, 1, Len(@) - 1)], "nil", c)
    ELSE IF msg.runes # ""
        THEN LET ci == mm.commandInput \o msg.runes
                 lci == ToLower(ci)
                 hit(i) == Contains(LowerNames[i], lci)
             IN  Ret([mm EXCEPT
                        !.commandInput = ci,
                        !.selectedCmd =
                            IF \E i \in 1..Len(CommandNames) : hit(i)
                            THEN (CHOOSE i \in 1..Len(CommandNames) :
                                     hit(i) /\ \A j \in (i + 1)..Len(CommandNames) : ~hit(j)) - 1
                            ELSE @],
                     "nil", c)
    ELSE Ret(mm, "nil", c)

updateCommandPalette(mm, msg, c) ==
    IF msg.str = "escape" THEN Ret(ClosePalette(mm), "nil", c)
    ELSE IF msg.str = "enter" /\ mm.selectedCmd < Len(CommandNames)
        THEN Action(mm.selectedCmd + 1, mm, c)
    ELSE IF msg.str = "up" /\ mm.selectedCmd > 0
        THEN Ret([mm EXCEPT !.selectedCmd = @ - 1], "nil", c)
    ELSE IF msg.str = "down" /\ mm.selectedCmd < Len(CommandNames) - 1
        THEN Ret([mm EXCEPT !.selectedCmd = @ + 1], "nil", c)
    ELSE IF msg.str = "backspace" /\ Len(mm.commandInput) > 0
        THEN Ret([mm EXCEPT !.commandInput = SubSeq(@, 1, Len(@) - 1)], "nil", c)
    ELSE IF msg.runes # ""
        THEN LET ci == mm.commandInput \o msg.runes
                 lci == ToLower(ci)
                 hit(i) == Contains(LowerNames[i], lci)
             IN  Ret([mm EXCEPT
                        !.commandInput = ci,
                        !.selectedCmd =
                            IF \E i \in 1..Len(CommandNames) : hit(i)
                            THEN (CHOOSE i \in 1..Len(CommandNames) :
                                     hit(i) /\ \A j \in 1..(i - 1) : ~hit(j)) - 1
                            ELSE @],
                     "nil", c)
    ELSE Ret(mm, "nil", c)

\* A submit condition without the streaming gate.
CanSubmitAnytime(mm, msg) == msg.str = "enter"

\* The condition under which Update treats a key as a submission.
CanSubmit(mm, msg) == msg.str = "enter" /\ ~mm.streaming

\* model.Update for a tea.KeyMsg; msg.str is msg.String(), msg.runes is
\* string(msg.Runes), "" when msg.Runes is nil.
UpdateKey(mm, msg, c) ==
    IF mm.commandView THEN updateCommandPalette(mm, msg, c)
    ELSE IF msg.str = "ctrl+p"
        THEN Ret([mm EXCEPT !.commandView = TRUE, !.commandInput = "",
                            !.selectedCmd = 0], "nil", c)
    ELSE IF msg.str = "ctrl+c" THEN Ret(mm, "quit", c)
    ELSE IF CanSubmit(mm, msg)
        THEN IF mm.input = "" THEN Ret(mm, "nil", c)
             ELSE IF HasPrefix(mm.input, "/") THEN handleCommand(mm, mm.input, c)
             ELSE sendMessage(mm, c)
    ELSE IF msg.str = "ctrl+u" THEN Ret([mm EXCEPT !.input = ""], "nil", c)
    ELSE IF msg.str = "backspace" /\ Len(mm.input) > 0
        THEN Ret([mm EXCEPT !.input = SubSeq(@, 1, Len(@) - 1)], "nil", c)
    ELSE IF msg.runes # "" THEN Ret([mm EXCEPT !.input = @ \o msg.runes], "nil", c)
    ELSE Ret(mm, "nil", c)

(***************************************************************************)
(* Go slices.  append reuses the backing array while len < cap and moves   *)
(* to a new one otherwise; a list grown one element at a time from empty   *)
(* (Run, clearChatCmd) has the capacities 1, 2, 4, 8, ...                  *)
(***************************************************************************)
RECURSIVE CapFrom(_, _)
CapFrom(c, n) == IF c >= n THEN c ELSE CapFrom(IF c = 0 THEN 1 ELSE 2 * c, n)

Cap(n) == CapFrom(0, n)

(***************************************************************************)
(* Events.                                                                 *)
(***************************************************************************)
\* msg.String() of the keys without runes, as bubbletea names them.
SpecialKeys ==
    {"enter", "ctrl+p", "ctrl+c", "ctrl+u", "backspace", "up", "down", "esc"}

\* string(msg.Runes) of the typed or pasted keys: in a session of prompts,
\* and in a session of typed commands.
RuneTexts == {"h", "/"}
CommandTexts == {"/provider", "/model", "/clear", "/help", "/config", "/exit"}

KeysWith(texts) ==
    {[str |-> k, runes |-> ""] : k \in SpecialKeys}
        \cup {[str |-> t, runes |-> t] : t \in texts}

KeyMsgs == KeysWith(RuneTexts)
CommandKeyMsgs == KeysWith(CommandTexts)

EnterKey == [str |-> "enter", runes |-> ""]

\* The causes a failed exchange reports besides the missing key: a read of the
\* response body that fails, and a status other than 200.
TransportError == "unexpected EOF"
StatusError == "API error (status 500): overloaded"

DeltaTexts == {"ok"}

\* The texts of the data lines of a response body, in line order.
ResponseBodies == [1..MaxDeltas -> DeltaTexts]

\* The names NewSimpleProvider tells apart, and one it does not know.
ProviderNames == {"openai", "anthropic", "google", "openrouter", "nvidia", "custom"}

\* (provider, model, API key of that provider) the session may start with.
Profiles ==
    { [provider |-> "openai", model |-> "gpt-4", apiKey |-> "sk-1"],
      [provider |-> "anthropic", model |-> "claude-3-opus-20240229", apiKey |-> ""] }

Event(ev, text) == [ev |-> ev, text |-> text]

\* A history an earlier session left in the config file.
PriorHistory == <<Msg("user", "h"), Msg("assistant", "ok")>>

(***************************************************************************)
(* Run: the initial model, and the config file it was started with.        *)
(***************************************************************************)
initialModel(p) ==
    [ messages |-> <<>>, input |-> "", provider |-> p.provider, model |-> p.model,
      streaming |-> FALSE, spinner |-> FALSE, spinnerFrame |-> 0,
      commandView |-> FALSE, selectedCmd |-> 0,
      commandInput |-> "", errMsg |-> "" ]

Init ==
    \E p \in Profiles :
        /\ m = initialModel(p)
        /\ cfg = [apiKey |-> p.apiKey, history |-> <<>>]
        /\ workers = <<>>
        /\ tick = 0
        /\ sent = 0
        /\ quit = FALSE
        /\ last = Event("other", "")

(***************************************************************************)
(* The event loop.  Every Update replaces the program's model by a fresh   *)
(* copy, so afterwards no earlier worker's *model is the program's model;  *)
(* the copy's messages slice still has the worker's backing array unless   *)
(* the handler's append moved it or clearChatCmd replaced it.              *)
(***************************************************************************)
NewWorker(userInput, n) ==
    [ pc |-> "start", userInput |-> userInput, response |-> "", body |-> <<>>,
      shared |-> TRUE, arr |-> TRUE, n |-> n, loaded |-> <<>>, outcome |-> "",
      provider |-> "", model |-> "" ]

\* streamResponse has returned msg: its locals are gone (the text it had
\* accumulated is kept for observation).
Returned(msg, text) ==
    [ pc |-> "done", userInput |-> "", response |-> text, body |-> <<>>,
      shared |-> FALSE, arr |-> FALSE, n |-> 0, loaded |-> <<>>, outcome |-> msg,
      provider |-> "", model |-> "" ]

\* The handler's append found the backing array full and moved the list.
Moved(old, new) == Len(new) > Len(old) /\ Len(old) = Cap(Len(old))

Detach(ws, moved) ==
    [i \in 1..Len(ws) |-> [ws[i] EXCEPT !.shared = FALSE, !.arr = @ /\ ~moved]]

Remove(ws, i) == SubSeq(ws, 1, i - 1) \o SubSeq(ws, i + 1, Len(ws))

\* Update for a key, in a session that starts at most maxSent exchanges,
\* whose commands answer while the list has fewer than maxFeedback entries
\* and whose input and filter grow while they hold fewer than maxTyped
\* characters.
KeyLimited(msg, maxSent, maxFeedback, maxTyped) ==
    /\ ~quit
    /\ \E r \in {UpdateKey(m, msg, cfg)} :
        /\ (r.cmd # "send" /\ Len(r.m.messages) > Len(m.messages))
              => Len(m.messages) < maxFeedback
        /\ (Len(r.m.input) > Len(m.input) \/ Len(r.m.commandInput) > Len(m.commandInput))
              => Len(m.input) + Len(m.commandInput) < maxTyped
        /\ r.cmd = "send" => sent < maxSent
        /\ m' = r.m
        /\ cfg' = r.cfg
        /\ quit' = (r.cmd = "quit")
        /\ workers' =
              IF r.cmd = "quit" THEN <<>>
              ELSE IF r.cmd = "send"
              THEN Append(Detach(workers, r.fresh \/ Moved(m.messages, r.m.messages)),
                          NewWorker(m.input, Len(r.m.messages)))
              ELSE Detach(workers, r.fresh \/ Moved(m.messages, r.m.messages))
        /\ tick' = IF r.cmd = "quit" THEN 0 ELSE IF r.cmd = "send" THEN tick + 1 ELSE tick
        /\ sent' = IF r.cmd = "send" THEN sent + 1 ELSE sent
        /\ last' = Event(IF msg.str = "enter" THEN "enter" ELSE "other", "")

KeyBounded(msg, maxSent, maxFeedback) == KeyLimited(msg, maxSent, maxFeedback, MaxTyped)

KeyWithin(msg, maxSent) == KeyBounded(msg, maxSent, MaxFeedback)

Key(msg) == KeyWithin(msg, MaxExchanges)

KeyPress == \E msg \in KeyMsgs : Key(msg)

CommandKeyPress == \E msg \in CommandKeyMsgs : Key(msg)

WindowSize ==
    /\ ~quit
    /\ m' = m
    /\ workers' = Detach(workers, FALSE)
    /\ last' = Event("other", "")
    /\ UNCHANGED <<tick, cfg, sent, quit>>

\* A spinnerTick handler that advances the frame without wrapping.
SpinnerTickNoWrap ==
    /\ ~quit
    /\ tick > 0
    /\ m' = [m EXCEPT !.spinnerFrame = @ + 1]
    /\ tick' = tick - 1
    /\ workers' = Detach(workers, FALSE)
    /\ last' = Event("other", "")
    /\ UNCHANGED <<cfg, sent, quit>>

SpinnerTick ==
    /\ ~quit
    /\ tick > 0
    /\ m' = [m EXCEPT !.spinnerFrame = (@ + 1) % Len(spinnerFrames)]
    /\ tick' = tick - 1
    /\ workers' = Detach(workers, FALSE)
    /\ last' = Event("other", "")
    /\ UNCHANGED <<cfg, sent, quit>>

\* A streamingComplete handler that leaves the session streaming.
StreamingCompleteStaysBusy ==
    /\ ~quit
    /\ \E i \in 1..Len(workers) :
        /\ workers[i].pc = "done"
        /\ workers[i].outcome = "complete"
        /\ m' = m
        /\ workers' = Remove(Detach(workers, FALSE), i)
        /\ last' = Event("complete", workers[i].response)
    /\ UNCHANGED <<tick, cfg, sent, quit>>

StreamingComplete ==
    /\ ~quit
    /\ \E i \in 1..Len(workers) :
        /\ workers[i].pc = "done"
        /\ workers[i].outcome = "complete"
        /\ m' = [m EXCEPT !.streaming = FALSE, !.spinner = FALSE]
        /\ workers' = Remove(Detach(workers, FALSE), i)
        /\ last' = Event("complete", workers[i].response)
    /\ UNCHANGED <<tick, cfg, sent, quit>>

\* A streamingError handler that ends the exchange without recording the cause.
StreamingErrorSilent ==
    /\ ~quit
    /\ \E i \in 1..Len(workers) :
        /\ workers[i].pc = "done"
        /\ workers[i].outcome \notin {"", "complete"}
        /\ m' = [m EXCEPT !.streaming = FALSE, !.spinner = FALSE]
        /\ workers' = Remove(Detach(workers, FALSE), i)
        /\ last' = Event("error", workers[i].response)
    /\ UNCHANGED <<tick, cfg, sent, quit>>

StreamingError ==
    /\ ~quit
    /\ \E i \in 1..Len(workers) :
        /\ workers[i].pc = "done"
        /\ workers[i].outcome \notin {"", "complete"}
        /\ m' = [m EXCEPT !.streaming = FALSE, !.spinner = FALSE,
                          !.errMsg = workers[i].outcome]
        /\ workers' = Remove(Detach(workers, FALSE), i)
        /\ last' = Event("error", workers[i].response)
    /\ UNCHANGED <<tick, cfg, sent, quit>>

(***************************************************************************)
(* The worker: streamResponse, one step per blocking call.                 *)
(***************************************************************************)
Step(i, w) == workers' = [workers EXCEPT ![i] = w]

\* config.GetAPIKey, then provider.SendMessage up to the response status.
\* A streamResponse that sends the request without looking at the key.
WorkerRequestAnyKey ==
    \E i \in 1..Len(workers) :
        /\ ~quit
        /\ workers[i].pc = "start"
        /\ \/ \E body \in ResponseBodies :
                 Step(i, [workers[i] EXCEPT !.pc = "stream", !.body = body,
                                            !.provider = m.provider,
                                            !.model = m.model])
           \/ Step(i, Returned(StatusError, ""))
        /\ UNCHANGED <<m, tick, cfg, sent, quit, last>>

WorkerRequest ==
    \E i \in 1..Len(workers) :
        /\ ~quit
        /\ workers[i].pc = "start"
        /\ IF cfg.apiKey = ""
           THEN Step(i, Returned("API key not set for provider: " \o m.provider, ""))
           ELSE \/ \E body \in ResponseBodies :
                        Step(i, [workers[i] EXCEPT !.pc = "stream", !.body = body,
                                                   !.provider = m.provider,
                                                   !.model = m.model])
                \/ Step(i, Returned(StatusError, ""))
        /\ UNCHANGED <<m, tick, cfg, sent, quit, last>>

\* One TextDelta: the callback appends it to the response builder.
WorkerDelta ==
    \E i \in 1..Len(workers) :
        /\ ~quit
        /\ workers[i].pc = "stream"
        /\ workers[i].body # <<>>
        /\ Step(i, [workers[i] EXCEPT !.response = @ \o Head(workers[i].body),
                                      !.body = Tail(@)])
        /\ UNCHANGED <<m, tick, cfg, sent, quit, last>>

\* The body reader fails before the end of the body: SendMessage returns the
\* error and the response builder is dropped.
WorkerStreamFails ==
    \E i \in 1..Len(workers) :
        /\ ~quit
        /\ workers[i].pc = "stream"
        /\ Step(i, Returned(TransportError, workers[i].response))
        /\ UNCHANGED <<m, tick, cfg, sent, quit, last>>

\* The stream ends: SendMessage returns nil.
WorkerStreamEnds ==
    \E i \in 1..Len(workers) :
        /\ ~quit
        /\ workers[i].pc = "stream"
        /\ workers[i].body = <<>>
        /\ Step(i, [workers[i] EXCEPT !.pc = "load"])
        /\ UNCHANGED <<m, tick, cfg, sent, quit, last>>

\* LoadConfig of config.AddMessage("user", userInput).
WorkerLoadUser ==
    \E i \in 1..Len(workers) :
        /\ ~quit
        /\ workers[i].pc = "load"
        /\ Step(i, [workers[i] EXCEPT !.pc = "save", !.loaded = cfg.history])
        /\ UNCHANGED <<m, tick, cfg, sent, quit, last>>

\* An AddMessage that appends to the file as it is when it saves.
WorkerSaveUserMerges ==
    \E i \in 1..Len(workers) :
        /\ ~quit
        /\ workers[i].pc = "save"
        /\ cfg' = [cfg EXCEPT !.history =
                      AddMessageTo(cfg.history, "user", workers[i].userInput)]
        /\ Step(i, [workers[i] EXCEPT !.pc = "load2", !.loaded = <<>>])
        /\ UNCHANGED <<m, tick, sent, quit, last>>

\* SaveConfig of config.AddMessage("user", userInput).
WorkerSaveUser ==
    \E i \in 1..Len(workers) :
        /\ ~quit
        /\ workers[i].pc = "save"
        /\ cfg' = [cfg EXCEPT !.history =
                      AddMessageTo(workers[i].loaded, "user", workers[i].userInput)]
        /\ Step(i, [workers[i] EXCEPT !.pc = "load2", !.loaded = <<>>])
        /\ UNCHANGED <<m, tick, sent, quit, last>>

\* LoadConfig of config.AddMessage("assistant", result).
WorkerLoadAssistant ==
    \E i \in 1..Len(workers) :
        /\ ~quit
        /\ workers[i].pc = "load2"
        /\ Step(i, [workers[i] EXCEPT !.pc = "save2", !.loaded = cfg.history])
        /\ UNCHANGED <<m, tick, cfg, sent, quit, last>>

\* SaveConfig of config.AddMessage("assistant", result).
WorkerSaveAssistant ==
    \E i \in 1..Len(workers) :
        /\ ~quit
        /\ workers[i].pc = "save2"
        /\ cfg' = [cfg EXCEPT !.history =
                      AddMessageTo(workers[i].loaded, "assistant", workers[i].response)]
        /\ Step(i, [workers[i] EXCEPT !.pc = "store", !.loaded = <<>>])
        /\ UNCHANGED <<m, tick, sent, quit, last>>

\* m.messages = append(m.messages, ...) on the worker's *model, then the
\* streamingComplete message.  The write reaches the program's model when
\* that is still the worker's *model; otherwise it lands in the backing
\* array, where the program's list sees it only in a slot it already uses.
WorkerStore ==
    \E i \in 1..Len(workers) :
        LET w == workers[i]
            result == Msg("assistant", w.response)
        IN
        /\ ~quit
        /\ w.pc = "store"
        /\ m' = IF w.shared
                THEN [m EXCEPT !.messages = Append(@, result)]
                ELSE IF w.arr /\ w.n < Cap(w.n) /\ Len(m.messages) > w.n
                THEN [m EXCEPT !.messages[w.n + 1] = result]
                ELSE m
        /\ Step(i, Returned("complete", w.response))
        /\ UNCHANGED <<tick, cfg, sent, quit, last>>

Next ==
    \/ KeyPress
    \/ WindowSize
    \/ SpinnerTick
    \/ StreamingComplete
    \/ StreamingError
    \/ WorkerRequest
    \/ WorkerDelta
    \/ WorkerStreamFails
    \/ WorkerStreamEnds
    \/ WorkerLoadUser
    \/ WorkerSaveUser
    \/ WorkerLoadAssistant
    \/ WorkerSaveAssistant
    \/ WorkerStore

Spec == Init /\ [][Next]_vars

\* The session when the exchange terminates (every blocking call of
\* streamResponse returns) and the program delivers the message a command
\* returned to Update.
WorkerStep ==
    \/ WorkerRequest
    \/ WorkerDelta
    \/ WorkerStreamEnds
    \/ WorkerLoadUser
    \/ WorkerSaveUser
    \/ WorkerLoadAssistant
    \/ WorkerSaveAssistant
    \/ WorkerStore

FairSpec ==
    /\ Spec
    /\ WF_vars(WorkerStep)
    /\ WF_vars(StreamingComplete)
    /\ WF_vars(StreamingError)

(***************************************************************************)
(* A session in which the user types commands and no prompt, started with  *)
(* or without an earlier history in the config file.                       *)
(***************************************************************************)
InitCommands ==
    \E p \in Profiles, h \in {<<>>, PriorHistory} :
        /\ m = initialModel(p)
        /\ cfg = [apiKey |-> p.apiKey, history |-> h]
        /\ workers = <<>>
        /\ tick = 0
        /\ sent = 0
        /\ quit = FALSE
        /\ last = Event("other", "")

NextCommands ==
    \/ CommandKeyPress
    \/ WindowSize

SpecCommands == InitCommands /\ [][NextCommands]_vars

(***************************************************************************)
(* A long session of prompts with no API key set for its provider: every   *)
(* exchange fails at once, and each one arms one more spinner tick.        *)
(***************************************************************************)
PromptKeyMsgs == {EnterKey, [str |-> "h", runes |-> "h"]}

InitSpinner ==
    \E p \in {[provider |-> name, model |-> GetModels(name)[1], apiKey |-> ""] :
                 name \in ProviderNames} :
        /\ m = initialModel(p)
        /\ cfg = [apiKey |-> p.apiKey, history |-> <<>>]
        /\ workers = <<>>
        /\ tick = 0
        /\ sent = 0
        /\ quit = FALSE
        /\ last = Event("other", "")

PromptKeyPress == \E msg \in PromptKeyMsgs : KeyWithin(msg, MaxSpins)

NextSpinner ==
    \/ PromptKeyPress
    \/ SpinnerTick
    \/ WorkerRequest
    \/ StreamingError

SpecSpinner == InitSpinner /\ [][NextSpinner]_vars

(***************************************************************************)
(* A session in which the user opens the palette and runs its first        *)
(* command, before and during one exchange.                                *)
(***************************************************************************)
PaletteKeyMsgs ==
    {EnterKey, [str |-> "ctrl+p", runes |-> ""], [str |-> "h", runes |-> "h"]}

InitPalette ==
    /\ m = initialModel([provider |-> "openai", model |-> "gpt-4"])
    /\ cfg = [apiKey |-> "sk-1", history |-> <<>>]
    /\ workers = <<>>
    /\ tick = 0
    /\ sent = 0
    /\ quit = FALSE
    /\ last = Event("other", "")

PaletteKeyPress == \E msg \in PaletteKeyMsgs : KeyBounded(msg, 1, MaxNotices)

NextPalette ==
    \/ PaletteKeyPress
    \/ SpinnerTick
    \/ StreamingComplete
    \/ StreamingError
    \/ WorkerRequest
    \/ WorkerDelta
    \/ WorkerStreamFails
    \/ WorkerStreamEnds
    \/ WorkerLoadUser
    \/ WorkerSaveUser
    \/ WorkerLoadAssistant
    \/ WorkerSaveAssistant
    \/ WorkerStore

SpecPalette == InitPalette /\ [][NextPalette]_vars

(***************************************************************************)
(* A session in which the user works in the palette: opens it, types into  *)
(* the filter, moves the selection, runs the selected command.  No prompt   *)
(* is sent.                                                                *)
(***************************************************************************)
FilterKeyMsgs ==
    {[str |-> k, runes |-> ""] : k \in {"ctrl+p", "enter", "up", "down", "backspace"}}
        \cup {[str |-> t, runes |-> t] : t \in {"c", "H", "x"}}

FilterKey(msg) == KeyLimited(msg, 0, MaxFeedback, MaxFilter)

FilterKeyPress == \E msg \in FilterKeyMsgs : FilterKey(msg)

NextFilter == FilterKeyPress

SpecFilter == InitPalette /\ [][NextFilter]_vars

(***************************************************************************)
(* A session in which the user pastes a command name, or a text that       *)
(* differs from one in letter case or by a trailing space, submits it and  *)
(* empties the buffer with ctrl+u.                                         *)
(***************************************************************************)
SubmitTexts == CommandTexts \cup {"/HELP", "/help ", "/Exit"}

SubmitKeyMsgs ==
    {EnterKey, [str |-> "ctrl+u", runes |-> ""]}
        \cup {[str |-> t, runes |-> t] : t \in SubmitTexts}

SubmitKey(msg) == KeyLimited(msg, 0, MaxAnswers, MaxTyped)

SubmitKeyPress == \E msg \in SubmitKeyMsgs : SubmitKey(msg)

NextSubmit == SubmitKeyPress

SpecSubmit == InitPalette /\ [][NextSubmit]_vars

(***************************************************************************)
(* package providers: the decoders of the response body.  A body is a      *)
(* sequence of lines as ReadString hands them out, each with its newline.   *)
(***************************************************************************)
WhiteSpace == {" ", "\n", "\t", "\r"}

RECURSIVE TrimLeft(_)
TrimLeft(s) ==
    IF Len(s) > 0 /\ SubSeq(s, 1, 1) \in WhiteSpace
    THEN TrimLeft(SubSeq(s, 2, Len(s))) ELSE s

RECURSIVE TrimRight(_)
TrimRight(s) ==
    IF Len(s) > 0 /\ SubSeq(s, Len(s), Len(s)) \in WhiteSpace
    THEN TrimRight(SubSeq(s, 1, Len(s) - 1)) ELSE s

TrimSpace(s) == TrimRight(TrimLeft(s))

TrimPrefix(s, p) == IF HasPrefix(s, p) THEN SubSeq(s, Len(p) + 1, Len(s)) ELSE s

\* The texts a chunk of the stream may carry.
ChunkTexts == {"a", "b", ""}

\* The JSON payloads of the three wire formats.
OpenAIChunk(t) == "{\"choices\":[{\"delta\":{\"content\":\"" \o t \o "\"}}]}"
AnthropicChunk(t) == "{\"type\":\"content_block_delta\",\"delta\":{\"text\":\"" \o t \o "\"}}"
GoogleChunk(t) == "{\"candidates\":[{\"content\":{\"parts\":[{\"text\":\"" \o t \o "\"}]}}]}"
PingChunk == "{\"type\":\"ping\"}"

\* json.Unmarshal of a payload into the three anonymous response structs:
\* err is its error, the other fields are what the structs hold afterwards.
Unmarshalled(choices, delta, candidates) ==
    [err |-> FALSE, choices |-> choices, delta |-> delta, candidates |-> candidates]

Unmarshal(data) ==
    IF \E t \in ChunkTexts : data = OpenAIChunk(t)
        THEN Unmarshalled(<<CHOOSE t \in ChunkTexts : data = OpenAIChunk(t)>>, "", <<>>)
    ELSE IF \E t \in ChunkTexts : data = AnthropicChunk(t)
        THEN Unmarshalled(<<>>, CHOOSE t \in ChunkTexts : data = AnthropicChunk(t), <<>>)
    ELSE IF \E t \in ChunkTexts : data = GoogleChunk(t)
        THEN Unmarshalled(<<>>, "", <<CHOOSE t \in ChunkTexts : data = GoogleChunk(t)>>)
    ELSE IF data = PingChunk THEN Unmarshalled(<<>>, "", <<>>)
    ELSE [err |-> TRUE, choices |-> <<>>, delta |-> "", candidates |-> <<>>]

\* One pass of a decoder's loop over a line: the callbacks it makes, and
\* whether it leaves the loop.
Continue(calls) == [calls |-> calls, break |-> FALSE]
Break == [calls |-> <<>>, break |-> TRUE]

\* A decoder that gives up at a data line whose payload is not valid JSON.
handleOpenAILineStrict(line) ==
    LET l == TrimSpace(line)
        data == TrimPrefix(l, "data: ")
        response == Unmarshal(data)
    IN  IF ~HasPrefix(l, "data: ") THEN Continue(<<>>)
        ELSE IF data = "[DONE]" THEN Break
        ELSE IF response.err THEN Break
        ELSE IF Len(response.choices) > 0 /\ response.choices[1] # ""
            THEN Continue(<<response.choices[1]>>)
        ELSE Continue(<<>>)

handleOpenAILine(line) ==
    LET l == TrimSpace(line)
        data == TrimPrefix(l, "data: ")
        response == Unmarshal(data)
    IN  IF ~HasPrefix(l, "data: ") THEN Continue(<<>>)
        ELSE IF data = "[DONE]" THEN Break
        ELSE IF response.err THEN Continue(<<>>)
        ELSE IF Len(response.choices) > 0 /\ response.choices[1] # ""
            THEN Continue(<<response.choices[1]>>)
        ELSE Continue(<<>>)

\* An Anthropic decoder that takes the payload [DONE] as the end of the stream.
handleAnthropicLineWithSentinel(line) ==
    LET l == TrimSpace(line)
        data == TrimPrefix(l, "data: ")
        response == Unmarshal(data)
    IN  IF ~HasPrefix(l, "data: ") THEN Continue(<<>>)
        ELSE IF data = "[DONE]" THEN Break
        ELSE IF response.err THEN Continue(<<>>)
        ELSE IF response.delta # "" THEN Continue(<<response.delta>>)
        ELSE Continue(<<>>)

handleAnthropicLine(line) ==
    LET l == TrimSpace(line)
        data == TrimPrefix(l, "data: ")
        response == Unmarshal(data)
    IN  IF ~HasPrefix(l, "data: ") THEN Continue(<<>>)
        ELSE IF response.err THEN Continue(<<>>)
        ELSE IF response.delta # "" THEN Continue(<<response.delta>>)
        ELSE Continue(<<>>)

handleGoogleLine(line) ==
    LET l == TrimSpace(line)
        data == TrimPrefix(l, "data: ")
        response == Unmarshal(data)
    IN  IF ~HasPrefix(l, "data: ") THEN Continue(<<>>)
        ELSE IF response.err THEN Continue(<<>>)
        ELSE IF Len(response.candidates) > 0
            THEN Continue(<<response.candidates[1]>>)
        ELSE Continue(<<>>)

\* handleResponse: the decoder of the provider named name.
handleLine(name, line) ==
    CASE name = "anthropic" -> handleAnthropicLine(line)
      [] name = "google"    -> handleGoogleLine(line)
      [] OTHER              -> handleOpenAILine(line)

(***************************************************************************)
(* package providers: the request.                                         *)
(***************************************************************************)
UpperChar(c) ==
    IF \E i \in 1..26 : SubSeq(LowerLetters, i, i) = c
    THEN LET i == CHOOSE j \in 1..26 : SubSeq(LowerLetters, j, j) = c
         IN  SubSeq(UpperLetters, i, i)
    ELSE c

\* textproto.CanonicalMIMEHeaderKey, which http.Header.Set applies to the key:
\* the first letter and every letter after a hyphen upper case, the rest lower.
RECURSIVE Canonical(_, _)
Canonical(s, upper) ==
    IF s = "" THEN ""
    ELSE LET c == SubSeq(s, 1, 1)
         IN  (IF upper THEN UpperChar(c) ELSE LowerChar(c))
                 \o Canonical(SubSeq(s, 2, Len(s)), c = "-")

\* req.Header.Set(key, value)
Set(header, key, value) ==
    LET k == Canonical(key, TRUE)
    IN  [h \in DOMAIN header \cup {k} |-> IF h = k THEN value ELSE header[h]]

NoHeader == [h \in {} |-> ""]

setHeaders(name, apiKey) ==
    CASE name = "anthropic" ->
           Set(Set(Set(NoHeader, "x-api-key", apiKey),
                   "anthropic-version", "2023-06-01"),
               "Content-Type", "application/json")
      [] name = "openrouter" ->
           Set(Set(Set(Set(NoHeader, "Authorization", "Bearer " \o apiKey),
                       "Content-Type", "application/json"),
                   "HTTP-Referer", "https://nexlycode.vercel.app"),
               "X-Title", "Nexly")
      [] OTHER ->
           Set(Set(NoHeader, "Authorization", "Bearer " \o apiKey),
               "Content-Type", "application/json")

formatGoogleMessages(messages) ==
    [i \in 1..Len(messages) |->
        [role  |-> IF messages[i].Role = "system" THEN "model" ELSE messages[i].Role,
         parts |-> <<[text |-> messages[i].Content]>>]]

\* The content of the last system message, "" when there is none.
RECURSIVE LastSystem(_)
LastSystem(messages) ==
    IF messages = <<>> THEN ""
    ELSE IF messages[Len(messages)].Role = "system" THEN messages[Len(messages)].Content
    ELSE LastSystem(SubSeq(messages, 1, Len(messages) - 1))

NotSystem(msg) == msg.Role # "system"

\* A buildRequestBody that gives every provider the OpenAI layout.
buildRequestBodyInline(name, model, messages) ==
    [model |-> model, messages |-> messages, stream |-> TRUE, temperature |-> "0.7"]

\* The map buildRequestBody returns: a function from its keys.
buildRequestBody(name, model, messages) ==
    CASE name = "google" ->
           [contents |-> formatGoogleMessages(messages),
            generationConfig |-> [temperature |-> "0.7", maxOutputTokens |-> 4096]]
      [] name = "anthropic" ->
           LET systemMsg == LastSystem(messages)
               body == [model |-> model, messages |-> SelectSeq(messages, NotSystem),
                        stream |-> TRUE, max_tokens |-> 4096]
           IN  IF systemMsg # "" THEN [system |-> systemMsg] @@ body ELSE body
      [] OTHER ->
           [model |-> model, messages |-> messages, stream |-> TRUE,
            temperature |-> "0.7"]

(***************************************************************************)
(* One call of SimpleProvider.SendMessage, step by step, with the messages *)
(* streamResponse builds for the prompt "h" and with or without a key.     *)
(* workers holds the one call.                                             *)
(***************************************************************************)
ApiKeys == {"", "sk-1"}

\* resp.StatusCode of the responses.
Statuses == {200, 204, 404, 500}

\* The lines a response body is made of.
BodyLines ==
    { "data: " \o OpenAIChunk("a") \o "\n",
      "  data: " \o OpenAIChunk("b") \o "\n",
      "data: " \o AnthropicChunk("a") \o "\r\n",
      "data: " \o AnthropicChunk("b") \o "\n",
      "data: " \o GoogleChunk("a") \o "\n",
      "data: " \o GoogleChunk("") \o "\n",
      "data: [DONE]\n",
      "data: {\"choices\":\n",
      "event: content_block_delta\n",
      "\n" }

Bodies == UNION {[1..n -> BodyLines] : n \in 0..MaxLines}

\* fmt's %d of a number that is not negative.
RECURSIVE Itoa(_)
Itoa(n) ==
    IF n < 10 THEN SubSeq("0123456789", n + 1, n + 1)
    ELSE Itoa(n \div 10) \o SubSeq("0123456789", (n % 10) + 1, (n % 10) + 1)

RECURSIVE Concat(_)
Concat(texts) == IF texts = <<>> THEN "" ELSE Head(texts) \o Concat(Tail(texts))

SystemPrompt == "You are Nexly, a helpful AI coding assistant. ..."

\* The messages streamResponse builds for userInput in a project of context ctx.
PromptMessages(ctx, userInput) ==
    << Msg("system", SystemPrompt),
       Msg("user", "Project context:\n" \o ctx \o "\n\nUser: " \o userInput) >>

\* provider.SendMessage(ctx, messages, callback) has been called on
\* NewSimpleProvider(name, apiKey, model).
Call(name, apiKey, model, messages) ==
    [ pc |-> "call", name |-> name, apiKey |-> apiKey, model |-> model,
      messages |-> messages,
      requests |-> <<>>,   \* the HTTP requests issued
      status |-> 0,        \* resp.StatusCode
      body |-> <<>>,       \* the lines of resp.Body not read yet
      tail |-> "",         \* what resp.Body holds after its last newline
      read |-> <<>>,       \* the lines read
      calls |-> <<>>,      \* the texts streamCallback was called with
      err |-> "" ]         \* the error returned, "" for nil

InitProvider ==
    \E name \in ProviderNames, key \in ApiKeys :
        LET p == [provider |-> name, model |-> GetModels(name)[1], apiKey |-> key]
            c == [apiKey |-> key, history |-> <<>>]
        IN  /\ m = sendMessage([initialModel(p) EXCEPT !.input = "h"], c).m
            /\ cfg = c
            /\ workers = <<Call(name, key, p.model, PromptMessages("", "h"))>>
            /\ tick = 1
            /\ sent = 1
            /\ quit = FALSE
            /\ last = Event("enter", "")

Proceed(call) ==
    /\ workers' = <<call>>
    /\ UNCHANGED <<m, tick, cfg, sent, quit, last>>

\* SendMessage up to client.Do: no request without a key.
SendMessage ==
    /\ workers[1].pc = "call"
    /\ LET w == workers[1]
       IN  IF w.apiKey = ""
           THEN Proceed([w EXCEPT !.pc = "returned",
                            !.err = "API key not configured for provider: " \o w.name])
           ELSE Proceed([w EXCEPT !.pc = "do",
                            !.requests = Append(@,
                                [header |-> setHeaders(w.name, w.apiKey),
                                 body   |-> buildRequestBody(w.name, w.model, w.messages)])])

\* A data line of the provider's wire format that the end of the stream
\* cuts off before its newline.
UnterminatedLine(name) ==
    "data: " \o (CASE name = "anthropic" -> AnthropicChunk("b")
                    [] name = "google"    -> GoogleChunk("b")
                    [] OTHER              -> OpenAIChunk("b"))

\* client.Do returns an error, or a response with a status and a body; a
\* body that is decoded may end in the middle of a line.
ClientDo ==
    /\ workers[1].pc = "do"
    /\ \/ Proceed([workers[1] EXCEPT !.pc = "returned", !.err = "connection refused"])
       \/ \E status \in Statuses, body \in Bodies :
          \E tail \in IF status = 200 THEN {"", UnterminatedLine(workers[1].name)} ELSE {""} :
              Proceed([workers[1] EXCEPT !.pc = "response", !.status = status,
                                        !.body = body, !.tail = tail])

\* A handleResponse that decodes the body whatever the status.
handleResponseAnyStatus ==
    /\ workers[1].pc = "response"
    /\ Proceed([workers[1] EXCEPT !.pc = "decode"])

\* handleResponse.  io.ReadAll hands back what it read, and its error is dropped.
handleResponse ==
    /\ workers[1].pc = "response"
    /\ LET w == workers[1]
       IN  IF w.status # 200
           THEN \E k \in 0..Len(w.body) :
                  Proceed([w EXCEPT
                     !.pc = "returned",
                     !.read = SubSeq(w.body, 1, k),
                     !.body = SubSeq(w.body, k + 1, Len(w.body)),
                     !.err = "API error (status " \o Itoa(w.status) \o "): "
                                \o Concat(SubSeq(w.body, 1, k))])
           ELSE Proceed([w EXCEPT !.pc = "decode"])

\* One pass of the decoder's loop: ReadString hands out the next line.
DecodeLine ==
    /\ workers[1].pc = "decode"
    /\ workers[1].body # <<>>
    /\ LET w == workers[1]
           r == handleLine(w.name, Head(w.body))
       IN  Proceed([w EXCEPT !.pc = IF r.break THEN "returned" ELSE "decode",
                             !.read = Append(@, Head(w.body)),
                             !.body = Tail(@),
                             !.calls = @ \o r.calls])

\* A decoder that handles what ReadString hands out together with io.EOF.
DecodeEOFHandlesTail ==
    /\ workers[1].pc = "decode"
    /\ workers[1].body = <<>>
    /\ Proceed([workers[1] EXCEPT
                   !.pc = "returned",
                   !.calls = @ \o handleLine(workers[1].name, workers[1].tail).calls])

\* ReadString returns io.EOF, with what the body held after its last
\* newline: the decoder leaves its loop without looking at it and returns nil.
DecodeEOF ==
    /\ workers[1].pc = "decode"
    /\ workers[1].body = <<>>
    /\ Proceed([workers[1] EXCEPT !.pc = "returned"])

\* ReadString returns another error: the decoder returns it.
DecodeFails ==
    /\ workers[1].pc = "decode"
    /\ Proceed([workers[1] EXCEPT !.pc = "returned", !.err = TransportError])

NextProvider ==
    \/ SendMessage
    \/ ClientDo
    \/ handleResponse
    \/ DecodeLine
    \/ DecodeEOF
    \/ DecodeFails

SpecProvider == InitProvider /\ [][NextProvider]_vars

(***************************************************************************)
(* package config: the file.  SaveConfig writes the JSON document of a     *)
(* Config, LoadConfig reads it back.  The document is kept as its tree,    *)
(* every string in it as the JSON text encoding/json writes for it.  In a  *)
(* Go string, InvalidByte stands for a byte that is not UTF-8 and          *)
(* ReplacementChar for U+FFFD.                                             *)
(***************************************************************************)
InvalidByte == "#"
ReplacementChar == "?"

\* encoding/json's text of one character of a string (HTML escaping is on).
EscapeChar(c) ==
    CASE c = "\""        -> "\\\""
      [] c = "\\"        -> "\\\\"
      [] c = "\n"        -> "\\n"
      [] c = "<"         -> "\\u003c"
      [] c = InvalidByte -> "\\ufffd"
      [] OTHER           -> c

RECURSIVE Escape(_)
Escape(str) ==
    IF str = "" THEN "" ELSE EscapeChar(SubSeq(str, 1, 1)) \o Escape(SubSeq(str, 2, Len(str)))

Quote(str) == "\"" \o Escape(str) \o "\""

\* The string of the text between the quotes of a JSON string.
RECURSIVE Unescape(_)
Unescape(t) ==
    IF t = "" THEN ""
    ELSE IF HasPrefix(t, "\\u003c") THEN "<" \o Unescape(SubSeq(t, 7, Len(t)))
    ELSE IF HasPrefix(t, "\\ufffd") THEN ReplacementChar \o Unescape(SubSeq(t, 7, Len(t)))
    ELSE IF HasPrefix(t, "\\n") THEN "\n" \o Unescape(SubSeq(t, 3, Len(t)))
    ELSE IF HasPrefix(t, "\\") THEN SubSeq(t, 2, 2) \o Unescape(SubSeq(t, 3, Len(t)))
    ELSE SubSeq(t, 1, 1) \o Unescape(SubSeq(t, 2, Len(t)))

Unquote(t) == Unescape(SubSeq(t, 2, Len(t) - 1))

\* A Config: APIKeys and History may be nil.
Config(provider, model, apiKeys, history) ==
    [Provider |-> provider, Model |-> model, APIKeys |-> apiKeys, History |-> history]

NilMap == [isNil |-> TRUE, entries |-> [k \in {} |-> ""]]
MapOf(entries) == [isNil |-> FALSE, entries |-> entries]
NilSlice == [isNil |-> TRUE, items |-> <<>>]
SliceOf(items) == [isNil |-> FALSE, items |-> items]

defaultConfig == Config("openai", "gpt-4", MapOf([k \in {} |-> ""]), SliceOf(<<>>))

\* No file at configPath().
NoFile ==
    [exists |-> FALSE, provider |-> "", model |-> "",
     api_keys |-> [null |-> TRUE, members |-> [k \in {} |-> ""]],
     history |-> [null |-> TRUE, elements |-> <<>>]]

\* json.MarshalIndent(cfg): the document os.WriteFile writes.
MarshalIndent(c) ==
    [exists |-> TRUE,
     provider |-> Quote(c.Provider),
     model |-> Quote(c.Model),
     api_keys |->
        [null |-> c.APIKeys.isNil,
         members |-> [t \in {Quote(k) : k \in DOMAIN c.APIKeys.entries} |->
                        Quote(c.APIKeys.entries[
                            CHOOSE k \in DOMAIN c.APIKeys.entries : Quote(k) = t])]],
     history |->
        [null |-> c.History.isNil,
         elements |-> [i \in 1..Len(c.History.items) |->
                        [role |-> Quote(c.History.items[i].Role),
                         content |-> Quote(c.History.items[i].Content)]]]]

\* json.Unmarshal(data, &cfg) into the zero Config: null leaves a field nil.
UnmarshalConfig(file) ==
    Config(Unquote(file.provider), Unquote(file.model),
           IF file.api_keys.null THEN NilMap
           ELSE MapOf([k \in {Unquote(t) : t \in DOMAIN file.api_keys.members} |->
                         Unquote(file.api_keys.members[
                             CHOOSE t \in DOMAIN file.api_keys.members : Unquote(t) = k])]),
           IF file.history.null THEN NilSlice
           ELSE SliceOf([i \in 1..Len(file.history.elements) |->
                           Msg(Unquote(file.history.elements[i].role),
                               Unquote(file.history.elements[i].content))]))

\* A LoadConfig that returns what json.Unmarshal left, nil fields included.
LoadConfigKeepsNil(file) ==
    IF ~file.exists THEN defaultConfig ELSE UnmarshalConfig(file)

\* LoadConfig: the defaults without a file; nil APIKeys and History made empty.
LoadConfig(file) ==
    IF ~file.exists THEN defaultConfig
    ELSE LET c == UnmarshalConfig(file)
         IN  Config(c.Provider, c.Model,
                    IF c.APIKeys.isNil THEN MapOf(c.APIKeys.entries) ELSE c.APIKeys,
                    IF c.History.isNil THEN SliceOf(<<>>) ELSE c.History)

(***************************************************************************)
(* The config file under the package's calls.  cfg is the file, last the   *)
(* call made last with the Config it was given or returned, sent the       *)
(* number of AddMessage calls.                                             *)
(***************************************************************************)
ConfigStrings == {"openai", "q\"<\\x\ny", "#a"}
ModelStrings == {"gpt-4", "g?#"}
KeyMaps ==
    {NilMap, MapOf([k \in {} |-> ""]),
     MapOf([k \in {"openai", "go\"gle"} |-> IF k = "openai" THEN "k\\1" ELSE ""])}

\* A history of n entries, each one different from the others.
Numbered(n) ==
    [i \in 1..n |-> Msg(IF i % 2 = 1 THEN "user" ELSE "assistant", Itoa(i))]

Histories ==
    {NilSlice, SliceOf(<<>>), SliceOf(<<Msg("user", "h\"i"), Msg("assistant", "<a>\n")>>)}

\* Short histories under every provider, model and key map; histories one
\* short of the cap and at the cap under the defaults.
ConfigValues ==
    {Config(p, mo, k, h) : p \in ConfigStrings, mo \in ModelStrings, k \in KeyMaps,
                           h \in Histories}
    \cup {Config("openai", "gpt-4", MapOf([k \in {"openai"} |-> "sk-1"]), SliceOf(Numbered(n))) :
             n \in {HistoryCap - 1, HistoryCap}}

\* A call, the Config it held, and whether it came right after a SaveConfig.
Called(name, value, before) ==
    [ev |-> name, value |-> value, afterSave |-> before.ev = "SaveConfig"]

InitConfig ==
    /\ m = initialModel([provider |-> "openai", model |-> "gpt-4"])
    /\ workers = <<>>
    /\ tick = 0
    /\ cfg = NoFile
    /\ sent = 0
    /\ quit = FALSE
    /\ last = [ev |-> "init", value |-> defaultConfig, afterSave |-> FALSE]

\* SaveConfig(&c) for a Config c of the caller.
SaveConfigCall ==
    \E c \in ConfigValues :
        /\ cfg' = MarshalIndent(c)
        /\ last' = Called("SaveConfig", c, last)
        /\ UNCHANGED <<m, workers, tick, sent, quit>>

LoadConfigCall ==
    /\ last' = Called("LoadConfig", LoadConfig(cfg), last)
    /\ UNCHANGED <<m, workers, tick, cfg, sent, quit>>

SetAPIKeyCall ==
    \E provider \in {"openai"}, key \in {"sk-2"} :
    \E c \in {LoadConfig(cfg)} :
    \E entries \in {[k \in DOMAIN c.APIKeys.entries \cup {provider} |->
                        IF k = provider THEN key ELSE c.APIKeys.entries[k]]} :
    \E d \in {[c EXCEPT !.APIKeys = MapOf(entries)]} :
        /\ cfg' = MarshalIndent(d)
        /\ last' = Called("SetAPIKey", d, last)
        /\ UNCHANGED <<m, workers, tick, sent, quit>>

AddMessageCall ==
    \E msg \in {Msg("user", "h"), Msg("assistant", "say \"a\"")} :
    \E c \in {LoadConfig(cfg)} :
    \E d \in {[c EXCEPT !.History = SliceOf(AddMessageTo(c.History.items, msg.Role, msg.Content))]} :
        /\ sent < MaxAdds
        /\ sent' = sent + 1
        /\ cfg' = MarshalIndent(d)
        /\ last' = Called("AddMessage", d, last)
        /\ UNCHANGED <<m, workers, tick, quit>>

ClearHistoryCall ==
    \E c \in {LoadConfig(cfg)} :
    \E d \in {[c EXCEPT !.History = SliceOf(<<>>)]} :
        /\ cfg' = MarshalIndent(d)
        /\ last' = Called("ClearHistory", d, last)
        /\ UNCHANGED <<m, workers, tick, sent, quit>>

NextConfig ==
    \/ SaveConfigCall
    \/ LoadConfigCall
    \/ SetAPIKeyCall
    \/ AddMessageCall
    \/ ClearHistoryCall

SpecConfig == InitConfig /\ [][NextConfig]_vars

(***************************************************************************)
(* Properties of the session.                                              *)
(***************************************************************************)

\* C1: while the program runs at most one exchange is in flight, and the
\* streaming flag is set exactly while one is; an exchange is started only by
\* the enter key pressed with the flag clear, which sets it; the flag is
\* cleared only by processing the outcome event of the exchange.
C1_OneExchangeInFlight ==
    /\ [](~quit => (Len(workers) <= 1 /\ (m.streaming <=> Len(workers) = 1)))
    /\ [][Len(workers') > Len(workers)
            => (~m.streaming /\ m'.streaming /\ Key(EnterKey)
                /\ Len(workers') = Len(workers) + 1)]_vars
    /\ [][(m.streaming /\ ~m'.streaming) => (StreamingComplete \/ StreamingError)]_vars

\* The second exchange of the session is in flight while the palette is open.
C1_Witness ==
    /\ ~quit /\ Len(workers) = 1 /\ m.streaming /\ m.commandView /\ sent = 2

\* C2: enter in chat mode while streaming changes no field of the session,
\* starts no exchange and writes nothing to the config file, whatever the
\* input buffer holds.
C2_EnterWhileStreamingIsNoOp ==
    [][(~m.commandView /\ m.streaming /\ Key(EnterKey))
        => (m' = m /\ cfg' = cfg /\ Len(workers') = Len(workers) /\ sent' = sent)]_vars

\* Enter was pressed during an exchange with a slash text in the buffer.
C2_Witness ==
    /\ ~quit /\ last.ev = "enter" /\ m.streaming /\ ~m.commandView
    /\ m.input = "/" /\ Len(workers) = 1

\* C3: once the completion event of an exchange has been processed, the last
\* message of the list is the assistant message holding the accumulated text.
C3_ResponseIsLastMessage ==
    last.ev = "complete"
        => /\ m.messages # <<>>
           /\ m.messages[Len(m.messages)] = Msg("assistant", last.text)

\* C4: once the completion event of an exchange has been processed, the
\* error text is empty.
C4_CompletionClearsError ==
    last.ev = "complete" => m.errMsg = ""

\* C5: processing the failure event of an exchange sets the error text to
\* the cause and clears the streaming flag, and neither that step nor the
\* worker's step that fails the exchange changes the message list.
C5_FailureSetsErrorOnly ==
    /\ [][StreamingError
            => /\ \E i \in 1..Len(workers) :
                    /\ workers[i].pc = "done"
                    /\ workers[i].outcome \notin {"", "complete"}
                    /\ m'.errMsg = workers[i].outcome
               /\ ~m'.streaming
               /\ m'.messages = m.messages]_vars
    /\ [][(\E i \in 1..Len(workers) :
                /\ Len(workers') = Len(workers)
                /\ workers[i].pc # "done"
                /\ workers'[i].pc = "done"
                /\ workers'[i].outcome # "complete")
            => m' = m]_vars

\* An exchange failed after text had been accumulated, and the failure event
\* was processed: the list still ends with the prompt.
C5_Witness ==
    /\ last = Event("error", "ok")
    /\ m.errMsg = TransportError /\ ~m.streaming
    /\ m.messages # <<>> /\ m.messages[Len(m.messages)] = Msg("user", "h")

\* C6: in idle chat mode, enter with a non-empty buffer that does not start
\* with "/" appends one user message holding the buffer, empties the buffer,
\* sets streaming and starts one exchange for that text; enter with an empty
\* buffer changes nothing and starts no exchange.
C6_IdleEnter ==
    [][(~m.commandView /\ ~m.streaming /\ Key(EnterKey))
        => /\ (m.input # "" /\ ~HasPrefix(m.input, "/"))
                => /\ m'.messages = Append(m.messages, Msg("user", m.input))
                   /\ m'.input = ""
                   /\ m'.streaming
                   /\ Len(workers') = Len(workers) + 1
                   /\ workers'[Len(workers')].userInput = m.input
                   /\ workers'[Len(workers')].pc = "start"
           /\ m.input = ""
                => (m' = m /\ cfg' = cfg /\ workers' = workers /\ sent' = sent)]_vars

\* A prompt was submitted from idle chat mode and its exchange has started.
C6_Witness ==
    /\ last.ev = "enter" /\ m.streaming /\ ~m.commandView /\ m.input = ""
    /\ m.messages # <<>> /\ m.messages[Len(m.messages)] = Msg("user", "h")
    /\ Len(workers) = 1 /\ workers[1].pc = "start" /\ workers[1].userInput = "h"

\* C7: in idle chat mode, enter with a buffer that starts with "/" and is
\* none of the six command names appends one assistant message "Unknown
\* command: <buffer>", starts no exchange, and leaves provider and model.
C7_UnknownCommand ==
    [][(/\ ~m.commandView /\ ~m.streaming
        /\ HasPrefix(m.input, "/")
        /\ \A i \in 1..Len(CommandNames) : m.input # CommandNames[i]
        /\ Key(EnterKey))
        => /\ m'.messages
                = Append(m.messages, Msg("assistant", "Unknown command: " \o m.input))
           /\ ~m'.streaming
           /\ workers' = workers
           /\ sent' = sent
           /\ m'.provider = m.provider
           /\ m'.model = m.model]_vars

\* A command name short of its last letter was submitted.
C7_Witness ==
    /\ last.ev = "enter" /\ ~m.streaming /\ workers = <<>>
    /\ m.messages = <<Msg("assistant", "Unknown command: /clea")>>

\* C8 (as stated): right after /clear is executed, typed in chat or chosen
\* in the palette, the message list and the persisted history have length 0.
C8_ClearLeavesNothing ==
    [][(/\ \/ ~m.commandView /\ ~m.streaming /\ m.input = "/clear"
           \/ m.commandView /\ m.selectedCmd = 2
        /\ Key(EnterKey))
        => (Len(m'.messages) = 0 /\ Len(cfg'.history) = 0)]_vars

\* C8: right after /clear is executed, typed in chat or chosen in the
\* palette, the message list is the one assistant message "Chat history
\* cleared." and the persisted history is empty.
C8_ClearLeavesNotice ==
    [][(/\ \/ ~m.commandView /\ ~m.streaming /\ m.input = "/clear"
           \/ m.commandView /\ m.selectedCmd = 2
        /\ Key(EnterKey))
        => /\ m'.messages = <<Msg("assistant", ClearedText)>>
           /\ cfg'.history = <<>>]_vars

\* /clear was typed in chat and executed.
C8_Witness ==
    /\ last.ev = "enter" /\ ~m.commandView /\ m.input = "/clear"
    /\ m.messages = <<Msg("assistant", ClearedText)>> /\ cfg.history = <<>>

\* C9: in chat mode while streaming, a character key, backspace and ctrl+u
\* leave the input buffer unchanged.
C9_EditingDisabledWhileStreaming ==
    (~m.commandView /\ m.streaming)
        => \A msg \in KeyMsgs :
              (msg.runes # "" \/ msg.str \in {"backspace", "ctrl+u"})
                  => UpdateKey(m, msg, cfg).m.input = m.input

\* C10: the palette is never open while an exchange is streaming.
C10_NoPaletteWhileStreaming ==
    ~(m.commandView /\ m.streaming)

\* C11: while the program runs, the spinner frame index is the number of
\* spinner ticks processed so far (the ticks armed, one per exchange, less
\* those still pending) modulo the 10 frames, and lies in 0..9.
C11_SpinnerFrame ==
    ~quit => /\ m.spinnerFrame = (sent - tick) % 10
             /\ m.spinnerFrame \in 0..9
             /\ Len(spinnerFrames) = 10

\* Eleven ticks have been processed: the index has wrapped to 1.
C11_Witness ==
    ~quit /\ sent = 11 /\ tick = 0 /\ m.spinnerFrame = 1

\* C12 (as stated): the non-empty texts the decoder has called back with are,
\* in order, the texts of the lines that start with "data: " and carry a
\* payload of the provider's format, up to the terminal marker for the
\* OpenAI-compatible providers and up to the end of the body otherwise; no
\* other line yields a text or stops the decoding.
C12_DecodedTextLiteral ==
    \A i \in 1..Len(workers) :
        LET w == workers[i]
            ended == w.pc = "returned" /\ w.err = ""
            lines == IF ended THEN w.read \o w.body ELSE w.read
            IsData(line) == HasPrefix(line, "data: ")
            Payload(line) == TrimPrefix(TrimSpace(line), "data: ")
            Terminal(line) ==
                /\ w.name \notin {"anthropic", "google"}
                /\ IsData(line) /\ Payload(line) = "[DONE]"
            Carries(line, t) ==
                /\ IsData(line)
                /\ Payload(line) =
                      CASE w.name = "anthropic" -> AnthropicChunk(t)
                        [] w.name = "google"    -> GoogleChunk(t)
                        [] OTHER                -> OpenAIChunk(t)
            Text(line) ==
                IF \E t \in ChunkTexts : Carries(line, t)
                THEN CHOOSE t \in ChunkTexts : Carries(line, t) ELSE ""
            upTo ==
                IF \E k \in 1..Len(lines) : Terminal(lines[k])
                THEN (CHOOSE k \in 1..Len(lines) :
                         Terminal(lines[k]) /\ \A j \in 1..(k - 1) : ~Terminal(lines[j])) - 1
                ELSE Len(lines)
            NonEmpty(t) == t # ""
        IN  (w.pc \in {"decode", "returned"} /\ w.status = 200)
                => SelectSeq(w.calls, NonEmpty)
                      = SelectSeq([k \in 1..upTo |-> Text(lines[k])], NonEmpty)

\* C12: the non-empty texts the decoder has called back with are, in order,
\* the texts of the lines that, once the white space around them is trimmed,
\* start with "data: " and carry a payload of the provider's format, up to
\* the terminal marker for the OpenAI-compatible providers and up to the end
\* of the body otherwise; no other line yields a text or stops the decoding.
C12_DecodedText ==
    \A i \in 1..Len(workers) :
        LET w == workers[i]
            ended == w.pc = "returned" /\ w.err = ""
            lines == IF ended THEN w.read \o w.body ELSE w.read
            IsData(line) == HasPrefix(TrimSpace(line), "data: ")
            Payload(line) == TrimPrefix(TrimSpace(line), "data: ")
            Terminal(line) ==
                /\ w.name \notin {"anthropic", "google"}
                /\ IsData(line) /\ Payload(line) = "[DONE]"
            Carries(line, t) ==
                /\ IsData(line)
                /\ Payload(line) =
                      CASE w.name = "anthropic" -> AnthropicChunk(t)
                        [] w.name = "google"    -> GoogleChunk(t)
                        [] OTHER                -> OpenAIChunk(t)
            Text(line) ==
                IF \E t \in ChunkTexts : Carries(line, t)
                THEN CHOOSE t \in ChunkTexts : Carries(line, t) ELSE ""
            upTo ==
                IF \E k \in 1..Len(lines) : Terminal(lines[k])
                THEN (CHOOSE k \in 1..Len(lines) :
                         Terminal(lines[k]) /\ \A j \in 1..(k - 1) : ~Terminal(lines[j])) - 1
                ELSE Len(lines)
            NonEmpty(t) == t # ""
        IN  (w.pc \in {"decode", "returned"} /\ w.status = 200)
                => SelectSeq(w.calls, NonEmpty)
                      = SelectSeq([k \in 1..upTo |-> Text(lines[k])], NonEmpty)

\* An OpenAI-compatible body was decoded to its end: a data line, a data
\* line that is not JSON, and an indented data line.
C12_Witness ==
    /\ Len(workers) = 1
    /\ workers[1].pc = "returned" /\ workers[1].err = "" /\ workers[1].status = 200
    /\ workers[1].name = "nvidia"
    /\ workers[1].read = << "data: " \o OpenAIChunk("a") \o "\n",
                            "data: {\"choices\":\n",
                            "  data: " \o OpenAIChunk("b") \o "\n" >>
    /\ workers[1].calls = <<"a", "b">>

C15_RequestLayout ==
    \A i \in 1..Len(workers) :
        \A r \in 1..(IF workers[i].pc = "do" THEN Len(workers[i].requests) ELSE 0) :
            LET w == workers[i]
                body == w.requests[r].body
                header == w.requests[r].header
                Has(key) == \E h \in DOMAIN header : ToLower(h) = key
                Value(key) == header[CHOOSE h \in DOMAIN header : ToLower(h) = key]
            IN  /\ w.messages[1].Role = "system" /\ w.messages[2].Role = "user"
                /\ Len(w.messages) = 2
                /\ CASE w.name = "anthropic" ->
                          /\ "system" \in DOMAIN body
                          /\ body.system = w.messages[1].Content
                          /\ body.messages = <<w.messages[2]>>
                     [] w.name = "google" ->
                          /\ DOMAIN body = {"contents", "generationConfig"}
                          /\ Len(body.contents) = 2
                          /\ body.contents[1]
                                = [role |-> "model",
                                   parts |-> <<[text |-> w.messages[1].Content]>>]
                          /\ body.contents[2]
                                = [role |-> "user",
                                   parts |-> <<[text |-> w.messages[2].Content]>>]
                     [] OTHER ->
                          /\ "system" \notin DOMAIN body
                          /\ body.messages = w.messages
                /\ IF w.name = "anthropic"
                   THEN /\ Has("x-api-key") /\ Value("x-api-key") = w.apiKey
                        /\ Has("anthropic-version")
                        /\ Value("anthropic-version") = "2023-06-01"
                        /\ ~Has("authorization")
                   ELSE /\ Has("authorization")
                        /\ Value("authorization") = "Bearer " \o w.apiKey
                        /\ ~Has("x-api-key")
                /\ (Has("http-referer") \/ Has("x-title"))
                      <=> w.name = "openrouter"
                /\ w.name = "openrouter"
                      => /\ Value("http-referer") = "https://nexlycode.vercel.app"
                         /\ Value("x-title") = "Nexly"

\* The request of an Anthropic call has been built.
C15_Witness ==
    /\ Len(workers) = 1
    /\ workers[1].pc = "do" /\ workers[1].name = "anthropic"
    /\ Len(workers[1].requests) = 1
    /\ workers[1].requests[1].body.system = SystemPrompt
    /\ Len(workers[1].requests[1].body.messages) = 1
    /\ workers[1].requests[1].header["X-Api-Key"] = "sk-1"

\* C16 as stated: for every Config, LoadConfig right after SaveConfig returns
\* the saved provider, model and api_keys mapping (a nil map as the empty
\* mapping) and the saved history in order.
C16_RoundTripOfEveryConfig ==
    [][(last.ev = "SaveConfig" /\ last'.ev = "LoadConfig") =>
        /\ last'.value.Provider = last.value.Provider
        /\ last'.value.Model = last.value.Model
        /\ ~last'.value.APIKeys.isNil
        /\ last'.value.APIKeys.entries = last.value.APIKeys.entries
        /\ last'.value.History.items = last.value.History.items]_vars

\* C16: for every Config whose provider and model are valid UTF-8,
\* LoadConfig right after SaveConfig returns the saved provider, model and
\* api_keys mapping (a nil map as the empty mapping) and the saved history in
\* order; a byte of provider or model that is not UTF-8 is reloaded as U+FFFD.
C16_RoundTrip ==
    [][(last.ev = "SaveConfig" /\ last'.ev = "LoadConfig") =>
        /\ ~Contains(last.value.Provider, InvalidByte) =>
               last'.value.Provider = last.value.Provider
        /\ ~Contains(last.value.Model, InvalidByte) =>
               last'.value.Model = last.value.Model
        /\ ~last'.value.APIKeys.isNil
        /\ last'.value.APIKeys.entries = last.value.APIKeys.entries
        /\ last'.value.History.items = last.value.History.items
        /\ last.value.Provider = "#a" => last'.value.Provider = "?a"]_vars

C16_Witness ==
    /\ last.ev = "LoadConfig" /\ last.afterSave
    /\ cfg.provider = "\"q\\\"\\u003c\\\\x\\ny\""
    /\ last.value.Provider = "q\"<\\x\ny"
    /\ cfg.api_keys.null
    /\ ~last.value.APIKeys.isNil
    /\ Len(last.value.History.items) = 2

\* C17: the history in the file never has more than 100 entries, and
\* AddMessage leaves in it the last min(100, n+1) entries of the n entries
\* it had, in order, followed by the new message.
C17_HistoryCap ==
    /\ [](Len(LoadConfig(cfg).History.items) <= 100)
    /\ [][last'.ev = "AddMessage" =>
            \E old \in {LoadConfig(cfg).History.items}, new \in {LoadConfig(cfg').History.items} :
            \E keep \in {IF Len(old) + 1 < 100 THEN Len(old) ELSE 99} :
                /\ Len(new) = keep + 1
                /\ \A i \in 1..keep : new[i] = old[Len(old) - keep + i]
                /\ new[keep + 1] \in {Msg("user", "h"), Msg("assistant", "say \"a\"")}
                /\ new[keep + 1] = last'.value.History.items[keep + 1]]_vars

C17_Witness ==
    /\ last.ev = "AddMessage"
    /\ sent = 2
    /\ Len(cfg.history.elements) = 100
    /\ cfg.history.elements[1].content = "\"3\""
    /\ cfg.history.elements[98].content = "\"100\""
    /\ cfg.history.elements[100].content = "\"say \\\"a\\\"\""

\* C18: every step leaves the message list unchanged, extends it at the end
\* with the entries it had unchanged, or replaces it by the list /clear
\* leaves; no step removes, swaps or rewrites an entry.
C18_ListOnlyGrowsOrClears ==
    [][\/ m'.messages = m.messages
       \/ /\ Len(m'.messages) > Len(m.messages)
          /\ SubSeq(m'.messages, 1, Len(m.messages)) = m.messages
       \/ m'.messages = <<Msg("assistant", ClearedText)>>]_vars

\* C19: no worker holds the model the event loop holds, and no step of a
\* worker changes the session state.
C19_WorkerSharesNothing ==
    /\ [](\A i \in 1..Len(workers) : ~workers[i].shared)
    /\ [][(/\ Len(workers') = Len(workers)
           /\ \E i \in 1..Len(workers) : workers'[i].pc # workers[i].pc)
            => m' = m]_vars

\* C20: an exchange in flight is the only one; its worker issues its request
\* once, returns one outcome that never changes, and leaves only when Update
\* handles that outcome as the matching event (or the program quits); and
\* when the exchange terminates and pending events are handled, a streaming
\* session that is not quit stops streaming.
C20_OneOutcomeThenIdle ==
    /\ [](Len(workers) <= 1 /\ (~quit => (m.streaming <=> workers # <<>>)))
    /\ [][workers # <<>> /\ workers' # <<>> =>
            /\ workers[1].pc # "start" => workers'[1].pc # "start"
            /\ workers[1].pc = "done" =>
                   workers'[1].pc = "done" /\ workers'[1].outcome = workers[1].outcome]_vars
    /\ [][workers # <<>> /\ workers' = <<>> /\ ~quit' =>
            /\ workers[1].pc = "done"
            /\ ~m'.streaming
            /\ last'.ev = IF workers[1].outcome = "complete" THEN "complete" ELSE "error"]_vars
    /\ (m.streaming /\ ~quit) ~> (~m.streaming \/ quit)

C20_Witness ==
    /\ sent = 2
    /\ last.ev = "complete"
    /\ m.errMsg = StatusError
    /\ ~m.streaming
    /\ workers = <<>>
    /\ ~quit

\* C21: in the OpenAI-compatible decoder a data line with the payload [DONE]
\* is the last line read: the decoder has returned nil and the texts called
\* back are those of the lines before it, whatever follows in the body.  In
\* the Anthropic and Google decoders such a line yields no text and does not
\* end the decoding: a decoder that returned nil has read the whole body, and
\* the texts called back are those of all other lines read.
C21_DoneSentinel ==
    \A i \in 1..Len(workers) :
        LET w == workers[i]
            Done(line) == TrimSpace(line) = "data: [DONE]"
            Carries(line, t) ==
                TrimSpace(line) = "data: " \o
                      (CASE w.name = "anthropic" -> AnthropicChunk(t)
                         [] w.name = "google"    -> GoogleChunk(t)
                         [] OTHER                -> OpenAIChunk(t))
            Text(line) ==
                IF \E t \in ChunkTexts : Carries(line, t)
                THEN CHOOSE t \in ChunkTexts : Carries(line, t) ELSE ""
            NonEmpty(t) == t # ""
            Texts(n) == SelectSeq([k \in 1..n |-> Text(w.read[k])], NonEmpty)
        IN  (w.pc \in {"decode", "returned"} /\ w.status = 200) =>
                IF w.name \in {"anthropic", "google"}
                THEN /\ SelectSeq(w.calls, NonEmpty) = Texts(Len(w.read))
                     /\ (w.pc = "returned" /\ w.err = "") => w.body = <<>>
                ELSE \A k \in 1..Len(w.read) :
                        Done(w.read[k]) =>
                            /\ k = Len(w.read)
                            /\ w.pc = "returned" /\ w.err = ""
                            /\ SelectSeq(w.calls, NonEmpty) = Texts(k - 1)

\* An OpenAI-compatible decoder stopped at [DONE] with a data line left in
\* the body.
C21_Witness ==
    /\ Len(workers) = 1
    /\ workers[1].name = "openai" /\ workers[1].status = 200
    /\ workers[1].pc = "returned" /\ workers[1].err = ""
    /\ workers[1].read = <<"data: " \o OpenAIChunk("a") \o "\n", "data: [DONE]\n">>
    /\ workers[1].body = <<"  data: " \o OpenAIChunk("b") \o "\n">>
    /\ workers[1].calls = <<"a">>

\* C22: a spinner tick processed while the session streams leaves another
\* tick pending, a tick processed while it does not stream leaves the frame
\* index as it was, and a tick changes no field but the frame index.
C22_TimerPeriodicWhileStreaming ==
    [][(tick' = tick - 1 /\ ~quit') =>
          /\ m.streaming => tick' > 0
          /\ ~m.streaming => m'.spinnerFrame = m.spinnerFrame
          /\ [m' EXCEPT !.spinnerFrame = m.spinnerFrame] = m]_vars

\* C23: ctrl+p in chat mode opens the palette with an empty filter and the
\* selection at 0; the escape key in the palette closes it with the filter
\* emptied and runs no command; enter in the palette runs the selected
\* command and, unless it quits, leaves the palette closed with the filter
\* empty; no key pressed in the palette starts an exchange.
C23_PaletteTransitions ==
    [][/\ (~m.commandView /\ Key([str |-> "ctrl+p", runes |-> ""])) =>
              m'.commandView /\ m'.commandInput = "" /\ m'.selectedCmd = 0
       /\ (m.commandView /\ Key([str |-> "esc", runes |-> ""])) =>
              /\ ~m'.commandView /\ m'.commandInput = ""
              /\ m'.messages = m.messages /\ cfg' = cfg /\ ~quit'
       /\ (m.commandView /\ Key(EnterKey)) =>
              /\ m' = Action(m.selectedCmd + 1, m, cfg).m
              /\ ~quit' => (~m'.commandView /\ m'.commandInput = "")
       /\ (m.commandView /\ \E msg \in KeyMsgs : Key(msg)) => sent' = sent]_vars

\* C24: the palette's selection index is always within 0..5; up and down
\* move it by one and leave it alone at 0 and at 5; a character typed into
\* the filter moves it to the first command whose name contains the new
\* filter text, letter case ignored, and leaves it alone when none does.
C24_SelectionIndex ==
    /\ [](m.selectedCmd \in 0..5)
    /\ [][m.commandView =>
            /\ FilterKey([str |-> "up", runes |-> ""]) =>
                   m'.selectedCmd = IF m.selectedCmd = 0 THEN 0 ELSE m.selectedCmd - 1
            /\ FilterKey([str |-> "down", runes |-> ""]) =>
                   m'.selectedCmd = IF m.selectedCmd = 5 THEN 5 ELSE m.selectedCmd + 1
            /\ \A t \in {"c", "H", "x"} :
                   FilterKey([str |-> t, runes |-> t]) =>
                      LET hits == {i \in 0..5 :
                                      Contains(ToLower(CommandNames[i + 1]),
                                               ToLower(m.commandInput \o t))}
                      IN  /\ m'.commandInput = m.commandInput \o t
                          /\ m'.selectedCmd =
                                 IF hits = {} THEN m.selectedCmd
                                 ELSE CHOOSE i \in hits : \A j \in hits : i <= j]_vars

\* "c" selected /clear, down moved to /help, and "x" found no command.
C24_Witness ==
    m.commandView /\ m.commandInput = "cx" /\ m.selectedCmd = 3

C26_LastWriterWins ==
    [][\/ /\ Len(workers') = Len(workers)
          /\ \E i \in 1..Len(workers) :
                \/ /\ workers[i].pc = "save" /\ workers'[i].pc = "load2"
                   /\ cfg'.history =
                         AddMessageTo(workers[i].loaded, "user", workers[i].userInput)
                \/ /\ workers[i].pc = "save2" /\ workers'[i].pc = "store"
                   /\ cfg'.history =
                         AddMessageTo(workers[i].loaded, "assistant", workers[i].response)
       \/ /\ m'.messages = <<Msg("assistant", ClearedText)>>
          /\ cfg'.history = <<>>
       \/ cfg'.history = cfg.history]_vars

\* /clear ran during the second exchange, between the worker's load and its
\* save: the exchange has succeeded and the file holds the first exchange
\* again, followed by the second.
C26_Witness ==
    /\ sent = 2 /\ workers = <<>> /\ ~m.streaming /\ last.ev = "complete"
    /\ m.messages = <<Msg("assistant", ClearedText)>>
    /\ Len(cfg.history) = 4
    /\ cfg.history[1] = Msg("user", "h")
    /\ cfg.history[3] = Msg("user", "h")

\* C27: in idle chat mode, enter with a buffer that starts with "/" runs a
\* command only when the buffer equals its name: /exit asks the program to
\* quit; any other command leaves the session idle with the palette closed,
\* starts no exchange and appends its one assistant message (/clear to the
\* list it has emptied); a buffer that equals no name, even one that differs
\* from a name only in letter case or by a trailing space, runs no command.
C27_ExactCommandMatch ==
    [][(/\ ~m.commandView /\ ~m.streaming /\ HasPrefix(m.input, "/")
        /\ SubmitKey(EnterKey))
        => LET feedback ==
                   CASE m.input = "/provider" -> ProvidersText
                     [] m.input = "/model"    -> ModelsText(m.provider)
                     [] m.input = "/clear"    -> ClearedText
                     [] m.input = "/help"     -> HelpText
                     [] m.input = "/config"   -> ConfigText
                     [] OTHER                 -> "Unknown command: " \o m.input
           IN  IF m.input = "/exit" THEN quit' /\ m'.messages = m.messages
               ELSE /\ ~quit' /\ ~m'.streaming /\ ~m'.commandView
                    /\ sent' = sent /\ workers' = workers
                    /\ m'.messages =
                          Append(IF m.input = "/clear" THEN <<>> ELSE m.messages,
                                 Msg("assistant", feedback))]_vars

\* "/HELP" was answered as an unknown command, then "/help" with the help.
C27_Witness ==
    /\ last.ev = "enter" /\ ~m.streaming /\ ~m.commandView /\ ~quit
    /\ m.messages = <<Msg("assistant", "Unknown command: /HELP"),
                      Msg("assistant", HelpText)>>

\* C28: in idle chat mode, enter with a buffer that starts with "/" empties
\* the buffer when it equals no command name and leaves it as it is, still
\* holding the command's name, when it equals one.
C28_KnownCommandKeepsInput ==
    [][(/\ ~m.commandView /\ ~m.streaming /\ HasPrefix(m.input, "/")
        /\ SubmitKey(EnterKey))
        => m'.input = IF \E i \in 1..Len(CommandNames) : m.input = CommandNames[i]
                      THEN m.input ELSE ""]_vars

\* /help has just run and the buffer still holds "/help".
C28_Witness ==
    /\ last.ev = "enter" /\ ~quit
    /\ m.input = "/help"
    /\ m.messages = <<Msg("assistant", HelpText)>>

\* C29: when the body ends with a data line that has no newline, the decoder
\* that reached the end of the stream has returned nil and has called back
\* with the texts of the lines before it only: the last line's text is not
\* among them.
C29_UnterminatedLineDropped ==
    \A i \in 1..Len(workers) :
        LET w == workers[i]
            Carries(line, t) ==
                TrimSpace(line) = "data: " \o
                      (CASE w.name = "anthropic" -> AnthropicChunk(t)
                         [] w.name = "google"    -> GoogleChunk(t)
                         [] OTHER                -> OpenAIChunk(t))
            Text(line) ==
                IF \E t \in ChunkTexts : Carries(line, t)
                THEN CHOOSE t \in ChunkTexts : Carries(line, t) ELSE ""
            NonEmpty(t) == t # ""
        IN  (/\ w.pc = "returned" /\ w.status = 200 /\ w.body = <<>>
             /\ w.tail # "" /\ w.err # TransportError
             /\ w.name = "openai" =>
                    \A k \in 1..Len(w.read) : TrimSpace(w.read[k]) # "data: [DONE]")
            => /\ w.err = ""
               /\ Text(w.tail) = "b"
               /\ SelectSeq(w.calls, NonEmpty)
                     = SelectSeq([k \in 1..Len(w.read) |-> Text(w.read[k])], NonEmpty)

\* An Anthropic body of one complete data line and one cut off at the end of
\* the stream: only the first was called back.
C29_Witness ==
    /\ Len(workers) = 1
    /\ workers[1].name = "anthropic" /\ workers[1].status = 200
    /\ workers[1].pc = "returned" /\ workers[1].err = ""
    /\ workers[1].read = <<"data: " \o AnthropicChunk("a") \o "\r\n">>
    /\ workers[1].body = <<>>
    /\ workers[1].tail = "data: " \o AnthropicChunk("b")
    /\ workers[1].calls = <<"a">>

\* C30: enter in the palette runs the command at the selection index of the
\* whole command list, whatever the filter text is: the model, the config
\* file and the quit request after the key are those of that command's
\* action.
C30_EnterRunsUnfilteredIndex ==
    [][(m.commandView /\ FilterKey(EnterKey)) =>
          \E r \in {Action(m.selectedCmd + 1, m, cfg)} :
              /\ m' = r.m
              /\ cfg' = r.cfg
              /\ quit' = (r.cmd = "quit")]_vars

\* The filter "c" displays /clear and /config; three downs from /clear
\* reached index 5 and enter ran /exit, which is not displayed and whose name
\* does not contain "c".
C30_Witness ==
    /\ quit /\ last.ev = "enter"
    /\ m.commandView /\ m.commandInput = "c" /\ m.selectedCmd = 5
    /\ filtered(m) = <<"/clear", "/config">>
    /\ CommandNames[m.selectedCmd + 1] = "/exit"
    /\ ~Contains(ToLower(CommandNames[m.selectedCmd + 1]), ToLower(m.commandInput))
    /\ \A k \in 1..Len(filtered(m)) : filtered(m)[k] # CommandNames[m.selectedCmd + 1]

\* C31: only a successful exchange writes the persisted history, and what it
\* has written when its second AddMessage returns is the user's prompt
\* followed by the accumulated response, as the last two entries; the steps
\* by which an exchange fails leave the file alone, and a worker fails only
\* before its first AddMessage.
C31_HistoryOnlyOnSuccess ==
    [][/\ cfg'.history # cfg.history =>
             \/ m'.messages = <<Msg("assistant", ClearedText)>> /\ cfg'.history = <<>>
             \/ /\ Len(workers') = Len(workers)
                /\ \E i \in 1..Len(workers) :
                       /\ workers[i].pc \in {"save", "save2"}
                       /\ workers'[i].pc # workers[i].pc
       /\ Len(workers') = Len(workers) =>
             \A i \in 1..Len(workers) :
                 /\ (workers[i].pc # "done" /\ workers'[i].pc = "done"
                        /\ workers'[i].outcome # "complete")
                       => cfg' = cfg /\ workers[i].pc \in {"start", "stream"}
                 /\ (workers[i].pc = "save2" /\ workers'[i].pc = "store")
                       => \E n \in {Len(cfg'.history)} :
                             /\ n >= 2
                             /\ cfg'.history[n - 1] = Msg("user", workers[i].userInput)
                             /\ cfg'.history[n] = Msg("assistant", workers[i].response)]_vars

====
